---- MODULE Spec2Model ----
(***************************************************************************)
(* Nonogram solver (solver.py) and the level tool's solve handler          *)
(* (cret_lvl_gui.py) as state machines.                                    *)
(*                                                                         *)
(*   GenSpec  : line_possibilities applied to bounded (length, clues).     *)
(*   Spec     : NonogramSolver after construction; solve() step by step.   *)
(*   FairSpec : one solve without time limit per solver, weakly fair.      *)
(*   GuiSpec  : CreateLevelGUI.on_solve: save_level, collect_clues, solve. *)
(***************************************************************************)
EXTENDS Integers, Sequences, FiniteSets, TLC

VARIABLES
  gen_pc, gen_length, gen_clues, gen_result,
  row_clues, col_clues, row_poss, col_poss, board, row_order, nodes,
  time_limit, allow_partial, elapsed, stack, ok, pc, retval,
  calls, board0, timed_out,
  gui_pc, levels_file, name_var, row_entries, col_entries

gen_vars == <<gen_pc, gen_length, gen_clues, gen_result>>
solver_vars == <<row_clues, col_clues, row_poss, col_poss, board, row_order, nodes,
                 time_limit, allow_partial, elapsed, stack, ok, pc, retval,
                 calls, board0, timed_out>>
gui_vars == <<gui_pc, levels_file, name_var, row_entries, col_entries>>
vars == <<gen_vars, solver_vars, gui_vars>>

----------------------------------------------------------------------------
(* Bounds of the model.                                                    *)

\* longest line handed to line_possibilities in GenSpec
MaxLen == 4
\* largest clue entry in GenSpec
MaxClue == 2
\* longest clue sequence in GenSpec
MaxClueLen == 2
\* most rows / columns of a puzzle in Spec
MaxR == 2
MaxC == 2
\* most solve() invocations on one solver instance
MaxSolves == 2

\* Python's None: an unknown board cell, an absent time limit
None == -1

----------------------------------------------------------------------------
(* Sequence helpers (Python list operations used by the code).             *)

\* [v] * n
Repeat(v, n) == [i \in 1..n |-> v]

RECURSIVE SumSeq(_)
\* sum(s)
SumSeq(s) == IF s = <<>> THEN 0 ELSE Head(s) + SumSeq(Tail(s))

\* s[from:] with a 0-based Python index
SliceFrom(s, from) == IF from >= Len(s) THEN <<>> ELSE SubSeq(s, from + 1, Len(s))

\* all sequences over S of length at most n
SeqsUpTo(S, n) == UNION {[1..k -> S] : k \in 0..n}

----------------------------------------------------------------------------
(* line_possibilities(length, clues)                                       *)

RECURSIVE build(_, _, _, _), buildLoop(_, _, _, _, _, _)

\* the block appended for one offset i (solver.py 36-38)
NewAcc(clues, clue_index, acc, i) ==
  LET k == clues[clue_index + 1]
      placed == acc \o Repeat(0, i) \o Repeat(1, k)
  IN IF clue_index < Len(clues) - 1 THEN Append(placed, 0) ELSE placed

\* what build appends to results once every clue is placed (solver.py 23-27)
Finish(length, acc) ==
  IF Len(acc) <= length /\ \A j \in 1..Len(SliceFrom(acc, length)) : SliceFrom(acc, length)[j] = 0
    THEN << IF Len(acc) >= length THEN SubSeq(acc, 1, length)
                                  ELSE acc \o Repeat(0, length - Len(acc)) >>
    ELSE <<>>

\* the for-loop of build from offset i on; the results appended, in order
buildLoop(length, clues, clue_index, acc, i, max_pos) ==
  IF i > max_pos THEN <<>>
  ELSE build(length, clues, clue_index + 1, NewAcc(clues, clue_index, acc, i))
         \o buildLoop(length, clues, clue_index, acc, i + 1, max_pos)

\* the nested build(pos, clue_index, acc); pos is never read by the code
build(length, clues, clue_index, acc) ==
  IF clue_index = Len(clues) THEN Finish(length, acc)
  ELSE LET remaining_space == length - Len(acc)
           remaining_blocks == SumSeq(SliceFrom(clues, clue_index))
           min_spaces == Len(clues) - clue_index - 1
           max_pos == remaining_space - (remaining_blocks + min_spaces)
       IN buildLoop(length, clues, clue_index, acc, 0, max_pos)

\* a generator that forgets the mandatory gap between blocks
line_possibilities_nogap(length, clues) ==
  LET RECURSIVE place(_, _)
      place(ci, acc) ==
        IF ci = Len(clues)
          THEN IF Len(acc) <= length THEN <<acc \o Repeat(0, length - Len(acc))>> ELSE <<>>
          ELSE LET RECURSIVE loop(_)
                   loop(i) == IF Len(acc) + i + clues[ci + 1] > length THEN <<>>
                              ELSE place(ci + 1, acc \o Repeat(0, i) \o Repeat(1, clues[ci + 1]))
                                     \o loop(i + 1)
               IN loop(0)
  IN place(0, <<>>)

line_possibilities(length, clues) ==
  IF clues = <<>> THEN << Repeat(0, length) >>
  ELSE LET total_blocks == SumSeq(clues)
           min_required == total_blocks + (Len(clues) - 1)
       IN IF min_required > length THEN <<>>
          ELSE build(length, clues, 0, <<>>)

----------------------------------------------------------------------------
(* GenSpec: the generator on bounded inputs.                               *)

GenClues == SeqsUpTo(0..MaxClue, MaxClueLen)

SolverIdle ==
  /\ row_clues = <<>> /\ col_clues = <<>> /\ row_poss = <<>> /\ col_poss = <<>>
  /\ board = <<>> /\ row_order = <<>> /\ nodes = 0
  /\ time_limit = None /\ allow_partial = TRUE /\ elapsed = 0
  /\ stack = <<>> /\ ok = FALSE /\ pc = "none" /\ retval = FALSE
  /\ calls = 0 /\ board0 = <<>> /\ timed_out = FALSE

GuiIdle ==
  /\ gui_pc = "none" /\ levels_file = "absent" /\ name_var = <<>>
  /\ row_entries = <<>> /\ col_entries = <<>>

GenIdle ==
  /\ gen_pc = "none" /\ gen_length = 0 /\ gen_clues = <<>> /\ gen_result = <<>>

GenInit ==
  /\ gen_pc = "call"
  /\ gen_length \in 0..MaxLen
  /\ gen_clues \in GenClues
  /\ gen_result = <<>>
  /\ SolverIdle /\ GuiIdle

Generate ==
  /\ gen_pc = "call"
  /\ gen_result' = line_possibilities(gen_length, gen_clues)
  /\ gen_pc' = "returned"
  /\ UNCHANGED <<gen_length, gen_clues, solver_vars, gui_vars>>

GenNext == Generate

GenSpec == GenInit /\ [][GenNext]_vars

----------------------------------------------------------------------------
(* Properties of the generator.                                            *)

RECURSIVE RunsFrom(_, _, _)
\* lengths of the maximal runs of 1s of t from position i on, cur = length of
\* the run that ends just before i
RunsFrom(t, i, cur) ==
  IF i > Len(t) THEN (IF cur > 0 THEN <<cur>> ELSE <<>>)
  ELSE IF t[i] = 1 THEN RunsFrom(t, i + 1, cur + 1)
  ELSE (IF cur > 0 THEN <<cur>> ELSE <<>>) \o RunsFrom(t, i + 1, 0)

\* lengths of the maximal runs of 1s of t, left to right
Runs(t) == RunsFrom(t, 1, 0)

RECURSIVE NonZero(_)
\* the entries of s that are not 0, in order
NonZero(s) ==
  IF s = <<>> THEN <<>>
  ELSE (IF Head(s) = 0 THEN <<>> ELSE <<Head(s)>>) \o NonZero(Tail(s))

Fits(length, clues) == SumSeq(clues) + Len(clues) - 1 <= length

Binary(t) == \A j \in 1..Len(t) : t[j] \in {0, 1}

NoDuplicates(s) == \A i, j \in 1..Len(s) : s[i] = s[j] => i = j

\* C5 as stated: for clues that fit, every generated tuple has length L, is
\* 0/1, and its maximal runs of 1s are exactly the clue sequence.
C5_RunsAreExactlyClues ==
  (gen_pc = "returned" /\ Fits(gen_length, gen_clues)) =>
    \A n \in 1..Len(gen_result) :
      /\ Len(gen_result[n]) = gen_length
      /\ Binary(gen_result[n])
      /\ Runs(gen_result[n]) = gen_clues

\* C5 amended: for clues that fit, every generated tuple has length L, is 0/1,
\* and its maximal runs of 1s are exactly the nonzero entries of the clue
\* sequence, in order (maximal runs are separated by at least one 0).
C5_RunsAreNonZeroClues ==
  (gen_pc = "returned" /\ Fits(gen_length, gen_clues)) =>
    \A n \in 1..Len(gen_result) :
      /\ Len(gen_result[n]) = gen_length
      /\ Binary(gen_result[n])
      /\ Runs(gen_result[n]) = NonZero(gen_clues)

\* a two-block clue with room to spare has been expanded into several tuples
C5_Witness ==
  /\ gen_pc = "returned"
  /\ Len(gen_clues) = 2 /\ gen_clues[1] > 0 /\ gen_clues[2] > 0
  /\ Fits(gen_length, gen_clues)
  /\ Len(gen_result) >= 2

\* C6 as stated: every 0/1 line of length L whose maximal runs are exactly the
\* clues is in the result, the result has no two equal entries, and the empty
\* clue sequence yields exactly the all-empty line.
C6_CompleteSet ==
  gen_pc = "returned" =>
    /\ \A t \in [1..gen_length -> {0, 1}] :
         Runs(t) = gen_clues => \E n \in 1..Len(gen_result) : gen_result[n] = t
    /\ NoDuplicates(gen_result)
    /\ (gen_clues = <<>> => gen_result = << Repeat(0, gen_length) >>)

----------------------------------------------------------------------------
(* NonogramSolver: construction.                                           *)

\* clue sequences the puzzles of Spec are built from: the empty clue, the zero
\* clue, one block that fits every line of length >= 1, one block that needs
\* length 2, two blocks that need length 3
PuzzleClues == {<<>>, <<0>>, <<1>>, <<2>>, <<1, 1>>}

\* self.row_poss (solver.py 61)
RowPoss(rc, cc) == [r \in 1..Len(rc) |-> line_possibilities(Len(cc), rc[r])]

\* self.col_poss (solver.py 62)
ColPoss(rc, cc) == [c \in 1..Len(cc) |-> line_possibilities(Len(rc), cc[c])]

\* self.board (solver.py 64)
NewBoard(rc, cc) == [r \in 1..Len(rc) |-> Repeat(None, Len(cc))]

RECURSIVE SortedFrom(_, _)
\* sorted(rows, key=len(poss[r])): Python's sort is stable, so ties keep the
\* smaller row index first
SortedFrom(poss, rows) ==
  IF rows = {} THEN <<>>
  ELSE LET first == CHOOSE r \in rows : \A q \in rows :
                      \/ Len(poss[r]) < Len(poss[q])
                      \/ (Len(poss[r]) = Len(poss[q]) /\ r <= q)
       IN <<first>> \o SortedFrom(poss, rows \ {first})

\* self.row_order (solver.py 67)
RowOrder(poss) == SortedFrom(poss, DOMAIN poss)

R == Len(row_clues)
C == Len(col_clues)

----------------------------------------------------------------------------
(* NonogramSolver.solve and its nested backtrack, one step at a time.      *)
(* pc: "idle" constructed, "enter" at the top of backtrack(Len(stack)),     *)
(* "loop" at the head of the candidate loop of the top frame, "applied"     *)
(* after the candidate is written and the columns are checked, "ret" a      *)
(* backtrack call has just returned retval, "done" solve has returned.      *)

\* time limits a caller passes: none, or one second
TimeLimits == {None, 1}

\* Python truthiness of time_limit: None and 0 are false
Truthy(tl) == tl # None /\ tl # 0

\* a row filter that forgets the "val is not None" test
is_consistent_ignoring_unknown(r, candidate) ==
  \A c \in 1..C : board[r][c] = candidate[c]

\* is_consistent_with_partial_row(r, candidate)
is_consistent_with_partial_row(r, candidate) ==
  \A c \in 1..C : ~(board[r][c] # None /\ board[r][c] # candidate[c])

\* col_candidate_compatible_with_partial_col(c, col_candidate) on board b
col_candidate_compatible_with_partial_col(b, c, col_candidate) ==
  \A rr \in 1..R : ~(b[rr][c] # None /\ b[rr][c] # col_candidate[rr])

\* the column scan after a candidate is written (solver.py 144-153)
ColumnsOk(b) ==
  \A c \in 1..C : \E n \in 1..Len(col_poss[c]) :
     col_candidate_compatible_with_partial_col(b, c, col_poss[c][n])

RECURSIVE CandidatesFrom(_, _)
\* [p for p in self.row_poss[r][i:] if is_consistent_with_partial_row(r, p)]
CandidatesFrom(r, i) ==
  IF i > Len(row_poss[r]) THEN <<>>
  ELSE (IF is_consistent_with_partial_row(r, row_poss[r][i]) THEN <<row_poss[r][i]>> ELSE <<>>)
         \o CandidatesFrom(r, i + 1)

\* candidates of row r under the current board (solver.py 131)
Candidates(r) == CandidatesFrom(r, 1)

\* a static check that looks at the rows only
StaticFailRowsOnly == \E r \in 1..R : row_poss[r] = <<>>

\* the static impossibility check (solver.py 97-107)
StaticFail ==
  \/ \E r \in 1..R : row_poss[r] = <<>>
  \/ \E c \in 1..C : col_poss[c] = <<>>

Top == stack[Len(stack)]
Pop == SubSeq(stack, 1, Len(stack) - 1)

puzzle_vars == <<row_clues, col_clues, row_poss, col_poss, row_order>>
call_vars == <<time_limit, allow_partial, calls, board0>>

\* solve(time_limit=tl, allow_partial=ap): solver.py 89-107 and the call
\* backtrack(0) of line 165
SolveCall(tl, ap) ==
  /\ pc \in {"idle", "done"}
  /\ calls < MaxSolves
  /\ elapsed' = 0
  /\ nodes' = 0
  /\ time_limit' = tl
  /\ allow_partial' = ap
  /\ calls' = calls + 1
  /\ board0' = board
  /\ timed_out' = FALSE
  /\ stack' = <<>>
  /\ ok' = FALSE
  /\ IF ~ap /\ StaticFail
       THEN pc' = "done" /\ retval' = FALSE
       ELSE pc' = "enter" /\ retval' = FALSE
  /\ UNCHANGED <<puzzle_vars, board>>

Solve ==
  /\ gui_pc = "none"
  /\ \E tl \in TimeLimits, ap \in BOOLEAN : SolveCall(tl, ap)
  /\ UNCHANGED <<gen_vars, gui_vars>>

\* clock readings time.time() - start_time can give at the budget check. The
\* clock is read only when time_limit is truthy (short-circuit and) and never
\* runs backwards; the check only compares the reading with time_limit, so
\* three readings stand for all: no time passed since the last reading, the
\* limit exactly reached, the limit exceeded
Readings ==
  IF Truthy(time_limit)
    THEN {t \in {elapsed, time_limit, time_limit + 1} : t >= elapsed}
    ELSE {elapsed}

\* backtrack(idx) from its first line to the candidate loop (solver.py 119-135)
Enter ==
  /\ pc = "enter"
  /\ \E t \in Readings :
       /\ elapsed' = t
       /\ IF Truthy(time_limit) /\ t > time_limit
            THEN /\ pc' = "ret" /\ retval' = FALSE /\ timed_out' = TRUE
                 /\ UNCHANGED <<nodes, stack>>
          ELSE IF Len(stack) = Len(row_order)
            THEN /\ pc' = "ret" /\ retval' = TRUE
                 /\ UNCHANGED <<nodes, stack, timed_out>>
          ELSE LET r == row_order[Len(stack) + 1]
                   candidates == Candidates(r)
               IN /\ nodes' = nodes + 1
                  /\ IF candidates = <<>>
                       THEN /\ pc' = "ret" /\ retval' = FALSE
                            /\ UNCHANGED stack
                       ELSE /\ stack' = Append(stack, [r |-> r, candidates |-> candidates,
                                                       ci |-> 1, old_row |-> board[r]])
                            /\ pc' = "loop"
                            /\ UNCHANGED retval
                  /\ UNCHANGED timed_out
  /\ UNCHANGED <<puzzle_vars, call_vars, board, ok, gen_vars, gui_vars>>

\* one iteration of the candidate loop up to the column check (solver.py 137-153)
Apply ==
  /\ pc = "loop"
  /\ Top.ci <= Len(Top.candidates)
  /\ LET candidate == Top.candidates[Top.ci]
         written == [board EXCEPT ![Top.r] = candidate]
     IN /\ stack' = [stack EXCEPT ![Len(stack)].old_row = board[Top.r]]
        /\ board' = written
        /\ ok' = ColumnsOk(written)
  /\ pc' = "applied"
  /\ UNCHANGED <<puzzle_vars, call_vars, nodes, elapsed, retval, timed_out, gen_vars, gui_vars>>

\* the candidate loop is exhausted: return False (solver.py 163)
Exhausted ==
  /\ pc = "loop"
  /\ Top.ci > Len(Top.candidates)
  /\ stack' = Pop
  /\ pc' = "ret"
  /\ retval' = FALSE
  /\ UNCHANGED <<puzzle_vars, call_vars, board, nodes, elapsed, ok, timed_out, gen_vars, gui_vars>>

\* ok: call backtrack(idx + 1) (solver.py 155-156)
Descend ==
  /\ pc = "applied"
  /\ ok
  /\ pc' = "enter"
  /\ ok' = FALSE
  /\ UNCHANGED <<puzzle_vars, call_vars, board, nodes, elapsed, stack, retval, timed_out,
                 gen_vars, gui_vars>>

\* an undo that leaves the row as written
UndoneNot == board

\* an undo that resets the row to unknown instead of to its saved cells
UndoneToUnknown == [board EXCEPT ![Top.r] = Repeat(None, C)]

\* board with the top frame's row restored (solver.py 160-161)
Undone == [board EXCEPT ![Top.r] = Top.old_row]

\* not ok: undo the row and go to the next candidate (solver.py 159-161)
UndoRow ==
  /\ pc = "applied"
  /\ ~ok
  /\ board' = Undone
  /\ stack' = [stack EXCEPT ![Len(stack)].ci = @ + 1]
  /\ pc' = "loop"
  /\ UNCHANGED <<puzzle_vars, call_vars, nodes, elapsed, ok, retval, timed_out,
                 gen_vars, gui_vars>>

\* a backtrack call returns to its caller: to solve (solver.py 165), or into
\* the candidate loop of the caller's frame (solver.py 156-161)
Return ==
  /\ pc = "ret"
  /\ IF stack = <<>>
       THEN /\ pc' = "done"
            /\ UNCHANGED <<board, stack>>
     ELSE IF retval
       THEN /\ stack' = Pop
            /\ pc' = "ret"
            /\ UNCHANGED board
     ELSE /\ board' = Undone
          /\ stack' = [stack EXCEPT ![Len(stack)].ci = @ + 1]
          /\ pc' = "loop"
  /\ UNCHANGED <<puzzle_vars, call_vars, nodes, elapsed, ok, retval, timed_out,
                 gen_vars, gui_vars>>

\* the state NonogramSolver(row_clues, col_clues) leaves (solver.py 55-70)
Init ==
  /\ row_clues \in SeqsUpTo(PuzzleClues, MaxR)
  /\ col_clues \in SeqsUpTo(PuzzleClues, MaxC)
  /\ row_poss = RowPoss(row_clues, col_clues)
  /\ col_poss = ColPoss(row_clues, col_clues)
  /\ board = NewBoard(row_clues, col_clues)
  /\ row_order = RowOrder(row_poss)
  /\ nodes = 0
  /\ time_limit = None /\ allow_partial = TRUE /\ elapsed = 0
  /\ stack = <<>> /\ ok = FALSE /\ pc = "idle" /\ retval = FALSE
  /\ calls = 0 /\ board0 = board /\ timed_out = FALSE
  /\ GenIdle /\ GuiIdle

Next == Solve \/ Enter \/ Apply \/ Exhausted \/ Descend \/ UndoRow \/ Return

Spec == Init /\ [][Next]_vars

\* solve called once, on the fresh solver, with no time limit
SolveFresh ==
  /\ gui_pc = "none"
  /\ calls = 0
  /\ \E ap \in BOOLEAN : SolveCall(None, ap)
  /\ UNCHANGED <<gen_vars, gui_vars>>

NextFresh == SolveFresh \/ Enter \/ Apply \/ Exhausted \/ Descend \/ UndoRow \/ Return

\* one solve without time limit on each fresh solver; the call is sequential
\* code that runs to its return, so its steps are taken as long as one is
\* enabled
FairSpec == Init /\ [][NextFresh]_vars /\ WF_vars(NextFresh)

----------------------------------------------------------------------------
(* Properties of solve.                                                    *)

\* column c of board b, as a tuple
Column(b, c) == [rr \in 1..Len(b) |-> b[rr][c]]

\* how many entries of the list poss equal line
Matches(poss, line) == Cardinality({n \in 1..Len(poss) : poss[n] = line})

\* the values a list holds
Range(s) == {s[n] : n \in 1..Len(s)}

\* some row or column has no precomputed possibility
SomeLineImpossible ==
  \/ \E r \in 1..Len(row_poss) : Len(row_poss[r]) = 0
  \/ \E c \in 1..Len(col_poss) : Len(col_poss[c]) = 0

\* some 0/1 grid has every row in row_poss and every column in col_poss
SolutionExists ==
  LET lines == UNION {Range(row_poss[r]) : r \in 1..Len(row_poss)}
  IN \E g \in [1..Len(row_poss) -> lines] :
       /\ \A r \in 1..Len(row_poss) : g[r] \in Range(row_poss[r])
       /\ \A c \in 1..Len(col_poss) : Column(g, c) \in Range(col_poss[c])

AllUnknown(row) == \A c \in 1..Len(row) : row[c] = None
AllAssigned(row) == \A c \in 1..Len(row) : row[c] \in {0, 1}
Fresh == calls = 1

\* C1 as stated: when solve on a fresh solver returns True, every cell is 0 or
\* 1, every row equals exactly one entry of its row_poss and every column
\* exactly one entry of its col_poss.
C1_Soundness ==
  (pc = "done" /\ retval /\ Fresh) =>
    /\ \A r \in 1..R : AllAssigned(board[r])
    /\ \A r \in 1..R : Matches(row_poss[r], board[r]) = 1
    /\ \A c \in 1..C : Matches(col_poss[c], Column(board, c)) = 1

\* C2: on a fresh solver with no time limit, a puzzle that has a solution
\* leads solve to return True (in permissive and in strict mode alike).
C2_Completeness ==
  (Fresh /\ time_limit = None /\ SolutionExists) ~> (Fresh /\ pc = "done" /\ retval)

\* a success with no time limit that needed a second candidate at some depth
C2_Witness ==
  /\ Fresh /\ time_limit = None /\ SolutionExists
  /\ pc = "ret" /\ retval /\ stack # <<>> /\ Top.ci > 1

\* C3 as stated: when some line has no possibility, permissive solve on a fresh
\* solver returns False (as strict solve does).
C3_PermissiveNoFalseSuccess ==
  (pc = "done" /\ Fresh /\ allow_partial /\ SomeLineImpossible) => retval = FALSE

\* C4: a strict solve of a puzzle with an impossible line has returned False
\* at once: no node entered, no board cell written.
C4_StrictFastFail ==
  (calls >= 1 /\ ~allow_partial /\ SomeLineImpossible) =>
    /\ pc = "done" /\ retval = FALSE
    /\ nodes = 0
    /\ board = board0
    /\ stack = <<>>

\* strict solve refused a puzzle whose rows are all possible but a column is not
C4_Witness ==
  /\ calls >= 1 /\ ~allow_partial /\ pc = "done"
  /\ R >= 1 /\ C >= 1
  /\ \A r \in 1..R : Len(row_poss[r]) > 0
  /\ \E c \in 1..C : Len(col_poss[c]) = 0

\* C8 as stated: once a budget check has found the time exceeded, no further
\* candidate is written or checked and no further backtrack step is entered.
C8_TimeoutAbortsAtOnce ==
  timed_out => pc \notin {"applied", "enter"}

\* rows at order positions below the depth are assigned, the others unknown
RowsSplitAtDepth ==
  \A k \in 1..Len(row_order) :
    IF k <= Len(stack) THEN AllAssigned(board[row_order[k]])
                       ELSE AllUnknown(board[row_order[k]])

\* the partial-row filter removes no candidate of the row about to be chosen
FilterRemovesNothing ==
  Len(stack) < Len(row_order) =>
    Candidates(row_order[Len(stack) + 1]) = row_poss[row_order[Len(stack) + 1]]

\* C9 as stated: in every solve invocation, at entry to each depth the rows
\* below it are assigned, the rows from it on are unknown, and the filter
\* removes nothing.
C9_RowsUnknownWhenVisited ==
  pc = "enter" => (RowsSplitAtDepth /\ FilterRemovesNothing)

\* C9 amended: the same, for solve invocations that start with a fully unknown
\* board (a fresh solver, or one on which no solve has returned True).
C9_RowsUnknownWhenBoardStartsUnknown ==
  (pc = "enter" /\ \A r \in 1..R : AllUnknown(board0[r])) =>
    (RowsSplitAtDepth /\ FilterRemovesNothing)

\* backtrack is entered at depth 1 for the second time
C9_Witness ==
  /\ pc = "enter" /\ Len(stack) = 1 /\ Top.ci > 1
  /\ \A r \in 1..R : AllUnknown(board0[r])

\* C10: a backtrack step that returns False has restored its row and those
\* below it, and when solve has returned False the board is as it was at entry
\* (fully unknown on a fresh solver).
C10_FailureRestoresBoard ==
  /\ (pc = "ret" /\ ~retval) =>
       \A k \in (Len(stack) + 1)..Len(row_order) :
          board[row_order[k]] = board0[row_order[k]]
  /\ (pc = "done" /\ ~retval) =>
       /\ board = board0
       /\ Fresh => \A r \in 1..R : AllUnknown(board[r])

\* solve has returned False after a timeout found below the first row
C10_Witness ==
  /\ pc = "done" /\ ~retval /\ timed_out /\ nodes >= 2 /\ R >= 2 /\ C >= 1

----------------------------------------------------------------------------
(* CreateLevelGUI.on_solve: save_level, collect_clues, the solver.         *)
(* gui_pc: "on_solve" the handler starts, "saved" save_level has returned,  *)
(* "raised" an exception left save_level and with it on_solve, "parse_error"*)
(* collect_clues reported an error, "solving" the solver is constructed,    *)
(* "shown" / "no_solution" the handler has finished.                        *)

\* longest text typed into an entry field
MaxText == 2
\* most row entries and most column entries of the form
MaxFields == 1
\* the time limit on_solve passes to solve
GuiTimeLimit == 10

\* characters typed into the entry fields
Chars == {"1", ",", " ", "x"}
Texts == SeqsUpTo(Chars, MaxText)

RECURSIVE lstrip(_), rstrip(_), split(_, _), DigitsValue(_)
lstrip(t) == IF t # <<>> /\ Head(t) = " " THEN lstrip(Tail(t)) ELSE t
rstrip(t) == IF t # <<>> /\ t[Len(t)] = " " THEN rstrip(SubSeq(t, 1, Len(t) - 1)) ELSE t
\* str.strip()
strip(t) == rstrip(lstrip(t))

\* text.split(','): the pieces between commas, cur the piece being read
split(t, cur) ==
  IF t = <<>> THEN <<cur>>
  ELSE IF Head(t) = "," THEN <<cur>> \o split(Tail(t), <<>>)
  ELSE split(Tail(t), Append(cur, Head(t)))

\* base-10 value of a string of digits
DigitsValue(p) == IF p = <<>> THEN 0 ELSE 10 * DigitsValue(SubSeq(p, 1, Len(p) - 1)) + 1

\* int(p) raises ValueError unless p is digits (p is stripped and not empty)
IsInt(p) == p # <<>> /\ \A i \in 1..Len(p) : p[i] = "1"

RECURSIVE NonEmptyStripped(_)
\* [p.strip() for p in pieces if p.strip()]
NonEmptyStripped(pieces) ==
  IF pieces = <<>> THEN <<>>
  ELSE (IF strip(Head(pieces)) # <<>> THEN <<strip(Head(pieces))>> ELSE <<>>)
         \o NonEmptyStripped(Tail(pieces))

\* the stripped, non-empty pieces of text between commas (cret_lvl_gui.py 67)
Parts(text) == NonEmptyStripped(split(strip(text), <<>>))

\* parse_clue_text(text) returns None: int() raised ValueError on some part
\* (cret_lvl_gui.py 68-71)
ParsesToNone(text) ==
  strip(text) # <<>> /\ \E i \in 1..Len(Parts(text)) : ~IsInt(Parts(text)[i])

\* parse_clue_text(text) when it returns a list (cret_lvl_gui.py 63-69)
parse_clue_text(text) ==
  IF strip(text) = <<>> THEN <<>>
  ELSE [i \in 1..Len(Parts(text)) |-> DigitsValue(Parts(text)[i])]

\* collect_clues(): err is set when any field fails to parse (128-143)
CollectErr ==
  \/ \E i \in 1..Len(row_entries) : ParsesToNone(row_entries[i])
  \/ \E i \in 1..Len(col_entries) : ParsesToNone(col_entries[i])
CollectRows == [i \in 1..Len(row_entries) |-> parse_clue_text(row_entries[i])]
CollectCols == [i \in 1..Len(col_entries) |-> parse_clue_text(col_entries[i])]

\* what custom-levels.json can be before the handler runs
FileStates == {"absent", "object", "malformed", "nonobject", "unreadable"}

\* the read half of save_level (159-166): "dict" data is an object, "other"
\* data is JSON of another type, "raise" the exception is not one of the two
\* the except clause names
LoadOutcome ==
  CASE levels_file = "absent" -> "dict"
    [] levels_file = "object" -> "dict"
    [] levels_file = "malformed" -> "dict"
    [] levels_file = "nonobject" -> "other"
    [] levels_file = "unreadable" -> "raise"

\* save_level() as called on the first line of on_solve (145-174, 180);
\* wrote: the write succeeded, failed before the file was opened, or failed
\* after the file was truncated
SaveLevel ==
  /\ gui_pc = "on_solve"
  /\ IF strip(name_var) = <<>> \/ CollectErr
          \/ Len(row_entries) = 0 \/ Len(col_entries) = 0
       THEN gui_pc' = "saved" /\ UNCHANGED levels_file
     ELSE IF LoadOutcome = "raise"
       THEN gui_pc' = "raised" /\ UNCHANGED levels_file
     ELSE IF LoadOutcome = "other"
       THEN gui_pc' = "raised" /\ UNCHANGED levels_file
     ELSE \E wrote \in {"ok", "not_opened", "truncated"} :
            /\ gui_pc' = "saved"
            /\ levels_file' = CASE wrote = "ok" -> "object"
                                [] wrote = "not_opened" -> levels_file
                                [] wrote = "truncated" -> "malformed"
  /\ UNCHANGED <<name_var, row_entries, col_entries, solver_vars, gen_vars>>

\* on_solve 183-189: collect the clues, construct the solver
CollectAndConstruct ==
  /\ gui_pc = "saved"
  /\ IF CollectErr
       THEN /\ gui_pc' = "parse_error"
            /\ UNCHANGED solver_vars
       ELSE /\ gui_pc' = "solving"
            /\ row_clues' = CollectRows
            /\ col_clues' = CollectCols
            /\ row_poss' = RowPoss(CollectRows, CollectCols)
            /\ col_poss' = ColPoss(CollectRows, CollectCols)
            /\ board' = NewBoard(CollectRows, CollectCols)
            /\ board0' = NewBoard(CollectRows, CollectCols)
            /\ row_order' = RowOrder(RowPoss(CollectRows, CollectCols))
            /\ pc' = "idle"
            /\ UNCHANGED <<nodes, time_limit, allow_partial, elapsed, stack, ok, retval,
                           calls, timed_out>>
  /\ UNCHANGED <<name_var, row_entries, col_entries, levels_file, gen_vars>>

\* on_solve 192: solver.solve(time_limit=10, allow_partial=True, debug=False)
GuiSolve ==
  /\ gui_pc = "solving"
  /\ pc = "idle"
  /\ SolveCall(GuiTimeLimit, TRUE)
  /\ UNCHANGED <<gen_vars, gui_vars>>

\* on_solve 195-223: report the outcome
ShowResult ==
  /\ gui_pc = "solving"
  /\ pc = "done"
  /\ gui_pc' = IF retval THEN "shown" ELSE "no_solution"
  /\ UNCHANGED <<name_var, row_entries, col_entries, levels_file, solver_vars, gen_vars>>

\* the form as generate_fields leaves it (at least one row and one column
\* entry), with texts typed in, when the Solve button is pressed
GuiInit ==
  /\ gui_pc = "on_solve"
  /\ levels_file \in FileStates
  /\ name_var \in {<<>>, <<"x">>}
  /\ row_entries \in UNION {[1..n -> Texts] : n \in 1..MaxFields}
  /\ col_entries \in UNION {[1..n -> Texts] : n \in 1..MaxFields}
  /\ SolverIdle /\ GenIdle

GuiNext ==
  \/ SaveLevel \/ CollectAndConstruct \/ GuiSolve \/ ShowResult
  \/ Enter \/ Apply \/ Exhausted \/ Descend \/ UndoRow \/ Return

GuiSpec == GuiInit /\ [][GuiNext]_vars

\* C7 as stated: whatever the state of the levels file, no failure leaves
\* save_level, so on_solve goes on to the solver whenever the fields parse.
C7_SaveFailuresStayLocal ==
  ~CollectErr => gui_pc # "raised"

====
